---- MODULE Spec2Model ----
(***************************************************************************)
(* IQSuiteClient (src/iqsuite/client.py): the response normalizer          *)
(* _handle_response, the multipart uploads create_index / add_document     *)
(* with their session-header toggle, and the pollers                       *)
(* create_index_and_poll / add_document_and_poll.                          *)
(*                                                                         *)
(* Spec      one client, calls issued one at a time (any caller thread).   *)
(* SpecRace  two caller threads running uploads on the same client.        *)
(* SpecChat  chat(): one request handed to the response normalizer.        *)
(***************************************************************************)
EXTENDS Integers, Sequences, FiniteSets, TLC

\* Largest max_retries argument explored.
MaxRetriesBound == 3

\* Caller threads sharing the one client instance.
Threads == {1, 2}

\* A key that a JSON mapping does not hold / a field that was never set.
ABSENT == "<absent>"
\* str(e) of the requests HTTPError raised by raise_for_status().
HTTPERR == "<HTTPError text>"

------------------------------------------------------------------------------
(* Values *)

\* session.headers after __init__.
AllHeaders == {"Authorization", "Accept", "Content-Type"}

UploadOps == {"create_index", "add_document"}
PollOps == {"create_index_and_poll", "add_document_and_poll"}
Ops == UploadOps \cup PollOps

\* The upload a public operation performs.
UploadOf(o) == IF o \in {"create_index", "create_index_and_poll"}
               THEN "create_index" ELSE "add_document"

Filenames == {"report.pdf", "slides.ppt", "photo.png", "image.gif"}

\* iqsuite.utils.get_mime_type: the MIME type inferred from the filename.
get_mime_type(f) ==
  CASE f = "report.pdf" -> "application/pdf"
    [] f = "slides.ppt" -> "application/vnd.ms-powerpoint"
    [] f = "photo.png"  -> "image/png"
    [] f = "image.gif"  -> "image/gif"

CreateIndexSupportedTypes ==
  { "application/pdf",
    "application/msword",
    "application/vnd.openxmlformats-officedocument.wordprocessingml.document",
    "application/vnd.ms-powerpoint",
    "application/vnd.openxmlformats-officedocument.presentationml.presentation" }

AddDocumentSupportedTypes ==
  { "application/pdf",
    "application/msword",
    "application/vnd.openxmlformats-officedocument.wordprocessingml.document",
    "image/jpeg",
    "image/png",
    "image/tiff",
    "image/bmp" }

SupportedTypes(o) == IF UploadOf(o) = "create_index"
                     THEN CreateIndexSupportedTypes
                     ELSE AddDocumentSupportedTypes

\* A slip that checks every upload against add_document's list.
PreflightRejectsAddList(o, m) == m \notin AddDocumentSupportedTypes

\* `if mime_type not in supported_types: raise ValueError(...)`.
PreflightRejects(o, m) == m \notin SupportedTypes(o)

\* Exceptions: kind is the class, msg the fixed text, detail the interpolated
\* value, status_code the keyword argument (0: not given), n an interpolated
\* number (0: none).
Exc(kind, msg, detail, code, n) ==
  [kind |-> kind, msg |-> msg, detail |-> detail, status_code |-> code, n |-> n]

NoExc == Exc("none", "", "", 0, 0)

\* HTTP responses a server can send.
StatusCodes == {200, 201, 302, 400, 401, 403, 422, 500}

NoData == [present |-> FALSE, task_id |-> ABSENT]
DataVals == { NoData,
              [present |-> TRUE, task_id |-> "t1"],
              [present |-> TRUE, task_id |-> "t2"],
              [present |-> TRUE, task_id |-> ABSENT] }
ErrorVals == {ABSENT, "", "quota exceeded"}
MessageVals == {ABSENT, "field X required"}
StatusVals == {ABSENT, "completed", "failed", "processing"}

\* kind: "dict" a JSON mapping, "nonmap" any other JSON value, "invalid" a
\* body response.json() cannot decode.
DictBodies == [kind : {"dict"}, error : ErrorVals, message : MessageVals,
               data : DataVals, status : StatusVals]
OtherBody(k) == [kind |-> k, error |-> ABSENT, message |-> ABSENT,
                 data |-> NoData, status |-> ABSENT]
Bodies == DictBodies \cup {OtherBody("nonmap"), OtherBody("invalid")}
Responses == [status_code : StatusCodes, body : Bodies]
NoResponse == [status_code |-> 0, body |-> OtherBody("none")]

\* Python truthiness of data.get("error").
Truthy(v) == v \notin {ABSENT, ""}

------------------------------------------------------------------------------
(* _handle_response *)

Ok(body) == [tag |-> "ok", exc |-> NoExc, data |-> body]
Err(e) == [tag |-> "err", exc |-> e, data |-> OtherBody("none")]
NoResult == [tag |-> "none", exc |-> NoExc, data |-> OtherBody("none")]

\* response.raise_for_status(): HTTPError for 4xx and 5xx.
RaiseForStatus(code) == code >= 400 /\ code < 600

\* A slip that looks for the `data` envelope before the `error` key.
HasApiErrorAfterData(body) ==
  body.kind = "dict" /\ ~body.data.present /\ Truthy(body.error)

\* isinstance(data, dict) and data.get("error")
HasApiError(body) == body.kind = "dict" /\ Truthy(body.error)

\* A slip that drops the server's message.
ErrorMessage422Dropped(body) == HTTPERR

\* error_data.get("message", str(e))
ErrorMessage422(body) ==
  IF body.message # ABSENT THEN body.message ELSE HTTPERR

\* The `except requests.exceptions.HTTPError` branch.
HttpErrorCase(resp) ==
  IF resp.status_code = 401
  THEN Err(Exc("AuthenticationError", "Invalid API key", "", 0, 0))
  ELSE IF resp.status_code = 422 /\ resp.body.kind = "dict"
  THEN Err(Exc("APIError", "Validation error", ErrorMessage422(resp.body),
               resp.status_code, 0))
  ELSE IF resp.status_code = 422 /\ resp.body.kind = "nonmap"
  THEN Err(Exc("AttributeError", "no attribute 'get'", "", 0, 0))
  ELSE Err(Exc("APIError", "HTTP error", HTTPERR, resp.status_code, 0))

\* The body of the outer `try`, after raise_for_status() let the response by.
DecodedCase(resp) ==
  IF resp.body.kind = "invalid"
  THEN Err(Exc("APIError", "Invalid JSON response from API", "", 0, 0))
  ELSE IF HasApiError(resp.body)
  THEN Err(Exc("APIError", "API error", resp.body.error, resp.status_code, 0))
  ELSE Ok(resp.body)

\* A slip that decodes the body before looking at the status.
handle_response_decode_first(resp) ==
  IF resp.body.kind = "invalid" THEN DecodedCase(resp)
  ELSE IF RaiseForStatus(resp.status_code) THEN HttpErrorCase(resp)
  ELSE DecodedCase(resp)

handle_response(resp) ==
  IF RaiseForStatus(resp.status_code) THEN HttpErrorCase(resp)
  ELSE DecodedCase(resp)

------------------------------------------------------------------------------
(* The typed records and the transport *)

NoTaskResponse == [present |-> FALSE, task_id |-> ABSENT]
NoTaskStatus == [present |-> FALSE, status |-> ABSENT]

\* What a call holds or hands back: tag "ok" with the value(s), or "err" with
\* the exception.
Outcome(tag, e, r, s) == [tag |-> tag, exc |-> e, response |-> r, status |-> s]
NoOutcome == Outcome("none", NoExc, NoTaskResponse, NoTaskStatus)
Raised(e) == Outcome("err", e, NoTaskResponse, NoTaskStatus)

\* session.post / session.get: a response, or a transport error.
TransportResults == Responses \cup {NoResponse}
TransportError == Exc("ConnectionError", "transport", "", 0, 0)

\* TaskResponse(data=response_data["data"])
MapTaskResponse(body) ==
  IF body.kind # "dict"
  THEN Raised(Exc("TypeError", "not subscriptable by str", "", 0, 0))
  ELSE IF ~body.data.present
  THEN Raised(Exc("KeyError", "data", "", 0, 0))
  ELSE IF body.data.task_id = ABSENT
  THEN Raised(Exc("ValidationError", "TaskResponse", "task_id", 0, 0))
  ELSE Outcome("ok", NoExc, [present |-> TRUE, task_id |-> body.data.task_id],
               NoTaskStatus)

\* TaskStatus(**data)
MapTaskStatus(body) ==
  IF body.kind # "dict"
  THEN Raised(Exc("TypeError", "argument after ** must be a mapping", "", 0, 0))
  ELSE IF body.status = ABSENT
  THEN Raised(Exc("ValidationError", "TaskStatus", "status", 0, 0))
  ELSE Outcome("ok", NoExc, NoTaskResponse,
               [present |-> TRUE, status |-> body.status])

\* The try block of create_index / add_document on transport result x.
UploadResult(x) ==
  IF x = NoResponse THEN Raised(TransportError)
  ELSE LET r == handle_response(x)
       IN IF r.tag = "err" THEN Raised(r.exc) ELSE MapTaskResponse(r.data)

\* get_task_status on transport result x.
get_task_status(x) ==
  IF x = NoResponse THEN Raised(TransportError)
  ELSE LET r == handle_response(x)
       IN IF r.tag = "err" THEN Raised(r.exc) ELSE MapTaskStatus(r.data)

\* Everything the try block of an upload can produce.
UploadResults == {UploadResult(x) : x \in TransportResults}

\* Everything one status check can produce.
TaskStatusResults == {get_task_status(x) : x \in TransportResults}

------------------------------------------------------------------------------
(* State *)

VARIABLES
  headers,           \* self.session.headers: the header names it holds
  pc,                \* per thread: the place its call has reached
  op,                \* per thread: the public operation called
  filename,          \* per thread: the filename argument
  max_retries,       \* per thread: the max_retries argument
  retries,           \* per thread: the poller's local counter
  original_headers,  \* per thread: the upload's local snapshot
  response,          \* per thread: the poller's local TaskResponse
  outcome,           \* per thread: what the (inner or whole) call produced
  history,           \* per thread: the result of each status check so far
  last_check,        \* per thread: what the latest get_task_status produced
  sleeps,            \* per thread: time.sleep calls of this call
  http_calls,        \* per thread: transport calls of this call
  sent,              \* per thread: the requests sent, with their headers
  submitted,         \* per thread: the TaskResponse the upload mapped
  headers_before,    \* per thread: session.headers when the call began
  snapshot_during_upload, \* some snapshot was taken while another upload had
                          \* the header removed
  chat_resp,         \* the response chat() received
  chat_out           \* what _handle_response made of it

locals == <<pc, op, filename, max_retries, retries, original_headers, response,
            outcome, history, last_check, sleeps, http_calls, sent, submitted,
            headers_before>>
chatvars == <<chat_resp, chat_out>>
vars == <<headers, locals, snapshot_during_upload, chatvars>>

\* A call between its pop of Content-Type and its finally clause.
InTry == {"post", "finally"}

Init ==
  /\ headers = AllHeaders
  /\ pc = [t \in Threads |-> "idle"]
  /\ op = [t \in Threads |-> "none"]
  /\ filename = [t \in Threads |-> "none"]
  /\ max_retries = [t \in Threads |-> 0]
  /\ retries = [t \in Threads |-> 0]
  /\ original_headers = [t \in Threads |-> {}]
  /\ response = [t \in Threads |-> NoTaskResponse]
  /\ outcome = [t \in Threads |-> NoOutcome]
  /\ history = [t \in Threads |-> <<>>]
  /\ last_check = [t \in Threads |-> NoOutcome]
  /\ sleeps = [t \in Threads |-> 0]
  /\ http_calls = [t \in Threads |-> 0]
  /\ sent = [t \in Threads |-> {}]
  /\ submitted = [t \in Threads |-> NoTaskResponse]
  /\ headers_before = [t \in Threads |-> {}]
  /\ snapshot_during_upload = FALSE
  /\ chat_resp = NoResponse
  /\ chat_out = NoResult

------------------------------------------------------------------------------
(* create_index / add_document *)

\* The caller invokes operation o with filename f and max_retries n.
Call(t, o, f, n) ==
  /\ pc[t] = "idle"
  /\ pc' = [pc EXCEPT ![t] = "mime"]
  /\ op' = [op EXCEPT ![t] = o]
  /\ filename' = [filename EXCEPT ![t] = f]
  /\ max_retries' = [max_retries EXCEPT ![t] = n]
  /\ headers_before' = [headers_before EXCEPT ![t] = headers]
  /\ UNCHANGED <<headers, retries, original_headers, response, outcome, history,
                 last_check, sleeps, http_calls, sent, submitted,
                 snapshot_during_upload, chatvars>>

\* One call at a time on the client: a call begins when no other is in flight.
Begin(t) ==
  /\ \A u \in Threads : pc[u] = "idle"
  /\ \E o \in Ops, f \in Filenames, n \in 0..MaxRetriesBound :
       /\ o \in UploadOps => n = 0
       /\ Call(t, o, f, n)

\* Uploads begun with no regard for the other thread's call.
BeginRace(t) ==
  \E o \in UploadOps, f \in Filenames : Call(t, o, f, 0)

\* mime_type = get_mime_type(filename); the allow-list check.
MimeCheck(t) ==
  /\ pc[t] = "mime"
  /\ IF PreflightRejects(op[t], get_mime_type(filename[t]))
     THEN /\ outcome' = [outcome EXCEPT ![t] =
               Raised(Exc("ValueError", "Unsupported file type",
                          get_mime_type(filename[t]), 0, 0))]
          /\ pc' = [pc EXCEPT ![t] = "done"]
     ELSE /\ pc' = [pc EXCEPT ![t] = "copy"]
          /\ UNCHANGED outcome
  /\ UNCHANGED <<headers, op, filename, max_retries, retries, original_headers,
                 response, history, last_check, sleeps, http_calls, sent,
                 submitted, headers_before, snapshot_during_upload, chatvars>>

\* A slip that takes the snapshot after the pop.
SnapshotAfterPop(cur) == cur \ {"Content-Type"}

\* self.session.headers.copy()
SnapshotHeaders(cur) == cur

\* original_headers = self.session.headers.copy()
CopyHeaders(t) ==
  /\ pc[t] = "copy"
  /\ original_headers' = [original_headers EXCEPT ![t] = SnapshotHeaders(headers)]
  /\ snapshot_during_upload' =
       (snapshot_during_upload \/ \E u \in Threads \ {t} : pc[u] \in InTry)
  /\ pc' = [pc EXCEPT ![t] = "pop"]
  /\ UNCHANGED <<headers, op, filename, max_retries, retries, response, outcome,
                 history, last_check, sleeps, http_calls, sent, submitted,
                 headers_before, chatvars>>

\* self.session.headers.pop("Content-Type", None)
PopContentType(t) ==
  /\ pc[t] = "pop"
  /\ headers' = headers \ {"Content-Type"}
  /\ pc' = [pc EXCEPT ![t] = "post"]
  /\ UNCHANGED <<op, filename, max_retries, retries, original_headers, response,
                 outcome, history, last_check, sleeps, http_calls, sent,
                 submitted, headers_before, snapshot_during_upload, chatvars>>

\* The try block: session.post(files=...), _handle_response, TaskResponse(...).
Post(t) ==
  /\ pc[t] = "post"
  /\ \E r \in UploadResults :
       /\ outcome' = [outcome EXCEPT ![t] = r]
       /\ submitted' = [submitted EXCEPT ![t] = r.response]
  /\ sent' = [sent EXCEPT ![t] = @ \cup
               {[req |-> UploadOf(op[t]), task_id |-> ABSENT, headers |-> headers]}]
  /\ http_calls' = [http_calls EXCEPT ![t] = @ + 1]
  /\ pc' = [pc EXCEPT ![t] = "finally"]
  /\ UNCHANGED <<headers, op, filename, max_retries, retries, original_headers,
                 response, history, last_check, sleeps, headers_before,
                 snapshot_during_upload, chatvars>>

\* A slip that leaves the session as the try block left it.
FinallyHeadersKept(orig, cur) == cur

\* finally: self.session.headers = original_headers
FinallyHeaders(orig, cur) == orig

\* The finally clause, then the upload's return or raise; a poller that got its
\* TaskResponse goes on to `retries = 0` and the loop.
Finally(t) ==
  /\ pc[t] = "finally"
  /\ headers' = FinallyHeaders(original_headers[t], headers)
  /\ IF op[t] \in PollOps /\ outcome[t].tag = "ok"
     THEN /\ response' = [response EXCEPT ![t] = outcome[t].response]
          /\ outcome' = [outcome EXCEPT ![t] = NoOutcome]
          /\ retries' = [retries EXCEPT ![t] = 0]
          /\ pc' = [pc EXCEPT ![t] = "loop"]
     ELSE /\ pc' = [pc EXCEPT ![t] = "done"]
          /\ UNCHANGED <<response, outcome, retries>>
  /\ UNCHANGED <<op, filename, max_retries, original_headers, history,
                 last_check, sleeps, http_calls, sent, submitted, headers_before,
                 snapshot_during_upload, chatvars>>

\* The caller has the result; the call's locals are gone.
Return(t) ==
  /\ pc[t] = "done"
  /\ pc' = [pc EXCEPT ![t] = "idle"]
  /\ op' = [op EXCEPT ![t] = "none"]
  /\ filename' = [filename EXCEPT ![t] = "none"]
  /\ max_retries' = [max_retries EXCEPT ![t] = 0]
  /\ retries' = [retries EXCEPT ![t] = 0]
  /\ original_headers' = [original_headers EXCEPT ![t] = {}]
  /\ response' = [response EXCEPT ![t] = NoTaskResponse]
  /\ outcome' = [outcome EXCEPT ![t] = NoOutcome]
  /\ history' = [history EXCEPT ![t] = <<>>]
  /\ last_check' = [last_check EXCEPT ![t] = NoOutcome]
  /\ sleeps' = [sleeps EXCEPT ![t] = 0]
  /\ http_calls' = [http_calls EXCEPT ![t] = 0]
  /\ sent' = [sent EXCEPT ![t] = {}]
  /\ submitted' = [submitted EXCEPT ![t] = NoTaskResponse]
  /\ headers_before' = [headers_before EXCEPT ![t] = {}]
  /\ UNCHANGED <<headers, snapshot_during_upload, chatvars>>

------------------------------------------------------------------------------
(* create_index_and_poll / add_document_and_poll *)

\* A slip that admits one check too many.
LoopContinuesInclusive(r, n) == r <= n

\* while retries < max_retries
LoopContinues(r, n) == r < n

\* A slip that misspells the terminal status.
IsCompletedMisspelt(s) == s = "complete"

\* status.status == "completed"
IsCompleted(s) == s = "completed"

\* A slip that tests for another word.
IsFailedOtherWord(s) == s = "error"

\* status.status == "failed"
IsFailed(s) == s = "failed"

\* A poller that swallows a failed status check and tries again.
PollDecisionRetryErrors(r) ==
  IF r.tag = "err" THEN "sleep"
  ELSE IF IsCompleted(r.status.status) THEN "return"
  ELSE IF IsFailed(r.status.status) THEN "task_failed"
  ELSE "sleep"

\* The loop body on what get_task_status produced: an exception leaves the
\* loop, as no try statement encloses the call.
PollDecision(r) ==
  IF r.tag = "err" THEN "propagate"
  ELSE IF IsCompleted(r.status.status) THEN "return"
  ELSE IF IsFailed(r.status.status) THEN "task_failed"
  ELSE "sleep"

\* The while test; past the budget, the raise after the loop.
LoopTest(t) ==
  /\ pc[t] = "loop"
  /\ IF LoopContinues(retries[t], max_retries[t])
     THEN /\ pc' = [pc EXCEPT ![t] = "check"]
          /\ UNCHANGED outcome
     ELSE /\ outcome' = [outcome EXCEPT ![t] =
               Raised(Exc("APIError", "Maximum retries reached", "", 0,
                          max_retries[t]))]
          /\ pc' = [pc EXCEPT ![t] = "done"]
  /\ UNCHANGED <<headers, op, filename, max_retries, retries, original_headers,
                 response, history, last_check, sleeps, http_calls, sent,
                 submitted, headers_before, snapshot_during_upload, chatvars>>

HistoryEntry(r) == IF r.tag = "err" THEN "<error>" ELSE r.status.status

\* status = self.get_task_status(task_id) and the if/elif on it.
CheckStatus(t) ==
  /\ pc[t] = "check"
  /\ \E r \in TaskStatusResults :
       LET d == PollDecision(r)
       IN /\ last_check' = [last_check EXCEPT ![t] = r]
          /\ history' = [history EXCEPT ![t] = Append(@, HistoryEntry(r))]
          /\ outcome' = [outcome EXCEPT ![t] =
               CASE d = "propagate" -> Raised(r.exc)
                 [] d = "return" -> Outcome("ok", NoExc, response[t], r.status)
                 [] d = "task_failed" ->
                      Raised(Exc("APIError", "Task failed with status",
                                 r.status.status, 0, 0))
                 [] OTHER -> @]
          /\ pc' = [pc EXCEPT ![t] = IF d = "sleep" THEN "sleep" ELSE "done"]
  /\ sent' = [sent EXCEPT ![t] = @ \cup
               {[req |-> "task_status", task_id |-> response[t].task_id,
                 headers |-> headers]}]
  /\ http_calls' = [http_calls EXCEPT ![t] = @ + 1]
  /\ UNCHANGED <<headers, op, filename, max_retries, retries, original_headers,
                 response, sleeps, submitted, headers_before,
                 snapshot_during_upload, chatvars>>

\* time.sleep(poll_interval); retries += 1
Sleep(t) ==
  /\ pc[t] = "sleep"
  /\ sleeps' = [sleeps EXCEPT ![t] = @ + 1]
  /\ retries' = [retries EXCEPT ![t] = @ + 1]
  /\ pc' = [pc EXCEPT ![t] = "loop"]
  /\ UNCHANGED <<headers, op, filename, max_retries, original_headers, response,
                 outcome, history, last_check, http_calls, sent, submitted,
                 headers_before, snapshot_during_upload, chatvars>>

------------------------------------------------------------------------------
(* chat *)

\* response = self.session.post(...); return self._handle_response(response)
Chat ==
  /\ \E x \in Responses :
       /\ chat_resp' = x
       /\ chat_out' = handle_response(x)
  /\ UNCHANGED <<headers, locals, snapshot_during_upload>>

------------------------------------------------------------------------------
(* Specifications *)

Next ==
  \E t \in Threads :
    \/ Begin(t)
    \/ MimeCheck(t)
    \/ CopyHeaders(t)
    \/ PopContentType(t)
    \/ Post(t)
    \/ Finally(t)
    \/ LoopTest(t)
    \/ CheckStatus(t)
    \/ Sleep(t)
    \/ Return(t)

Spec == Init /\ [][Next]_vars

NextRace ==
  \E t \in Threads :
    \/ BeginRace(t)
    \/ MimeCheck(t)
    \/ CopyHeaders(t)
    \/ PopContentType(t)
    \/ Post(t)
    \/ Finally(t)
    \/ Return(t)

SpecRace == Init /\ [][NextRace]_vars

NextChat == Chat

SpecChat == Init /\ [][NextChat]_vars

------------------------------------------------------------------------------
(* Properties of the pollers (Spec) *)

Last(h) == h[Len(h)]

\* Every status check so far returned a status other than the terminal two.
AllPending(h) ==
  \A i \in 1..Len(h) : h[i] \notin {"completed", "failed", "<error>"}

PollTimeout(n) == Raised(Exc("APIError", "Maximum retries reached", "", 0, n))
TaskFailed == Raised(Exc("APIError", "Task failed with status", "failed", 0, 0))

\* C1 (exhaustion): a poller called with max_retries = N never performs more
\* than N status checks, and when its upload succeeded and every status check
\* returned a status that is neither "completed" nor "failed", it ends after
\* exactly N status checks (N + 1 transport calls) by raising the
\* maximum-retries error that names N; that error is raised in no other case.
C1_Exhaustion ==
  \A t \in Threads :
    op[t] \in PollOps =>
      /\ Len(history[t]) <= max_retries[t]
      /\ (pc[t] = "done" /\ response[t].present /\ AllPending(history[t]))
           => /\ Len(history[t]) = max_retries[t]
              /\ http_calls[t] = max_retries[t] + 1
              /\ outcome[t] = PollTimeout(max_retries[t])
      /\ outcome[t].exc.msg = "Maximum retries reached"
           => /\ AllPending(history[t])
              /\ Len(history[t]) = max_retries[t]

C1_Witness ==
  \E t \in Threads :
    /\ pc[t] = "done"
    /\ op[t] \in PollOps
    /\ max_retries[t] = 3
    /\ history[t] = <<"processing", "processing", "processing">>
    /\ outcome[t] = PollTimeout(3)

\* C2 (failure is terminal): "failed" is only ever the result of the latest
\* status check, and once a status check returned "failed" the call is over,
\* having raised the task-failed error carrying that status after exactly that
\* many status checks, within the budget.
C2_FailureTerminal ==
  \A t \in Threads :
    op[t] \in PollOps =>
      /\ \A i \in 1..(Len(history[t]) - 1) : history[t][i] # "failed"
      /\ (Len(history[t]) > 0 /\ Last(history[t]) = "failed")
           => /\ pc[t] = "done"
              /\ outcome[t] = TaskFailed
              /\ Len(history[t]) <= max_retries[t]
              /\ http_calls[t] = Len(history[t]) + 1

C2_Witness ==
  \E t \in Threads :
    /\ pc[t] = "done"
    /\ max_retries[t] = 3
    /\ history[t] = <<"processing", "failed">>
    /\ outcome[t] = TaskFailed

\* C3 (completion): "completed" is only ever the result of the latest status
\* check, and once a status check returned "completed" the call is over,
\* having returned the TaskResponse its one upload produced together with the
\* TaskStatus of that very check, after exactly that many status checks.
C3_Completion ==
  \A t \in Threads :
    op[t] \in PollOps =>
      /\ \A i \in 1..(Len(history[t]) - 1) : history[t][i] # "completed"
      /\ (Len(history[t]) > 0 /\ Last(history[t]) = "completed")
           => /\ pc[t] = "done"
              /\ submitted[t].present
              /\ last_check[t].status.status = "completed"
              /\ outcome[t] = Outcome("ok", NoExc, submitted[t],
                                      last_check[t].status)
              /\ Len(history[t]) <= max_retries[t]
              /\ http_calls[t] = Len(history[t]) + 1
              /\ Cardinality({s \in sent[t] : s.req # "task_status"}) = 1

C3_Witness ==
  \E t \in Threads :
    /\ pc[t] = "done"
    /\ history[t] = <<"completed">>
    /\ http_calls[t] = 2
    /\ sleeps[t] = 0
    /\ outcome[t].tag = "ok"
    /\ outcome[t].response.task_id = "t2"
    /\ outcome[t].status.status = "completed"

\* C4 (errors are not retried): an error raised by a status check is only ever
\* the result of the latest check, and once one is raised the call is over
\* with that same error: no further status check, and no sleep after it.
C4_ErrorNotRetried ==
  \A t \in Threads :
    op[t] \in PollOps =>
      \A i \in 1..Len(history[t]) :
        history[t][i] = "<error>"
          => /\ i = Len(history[t])
             /\ pc[t] = "done"
             /\ last_check[t].tag = "err"
             /\ outcome[t] = Raised(last_check[t].exc)
             /\ sleeps[t] = Len(history[t]) - 1
             /\ http_calls[t] = Len(history[t]) + 1

C4_Witness ==
  \E t \in Threads :
    /\ pc[t] = "done"
    /\ max_retries[t] = 3
    /\ history[t] = <<"processing", "<error>">>
    /\ outcome[t].exc.kind = "ValidationError"
    /\ sleeps[t] = 1

------------------------------------------------------------------------------
(* Properties of the uploads (Spec) *)

\* C5 (header restoration): with one call in flight at a time, a call that
\* has ended, however it ended, leaves session.headers as they were when it
\* began, Content-Type included; the header is missing only while a call is
\* between its pop and its finally clause; and the only requests sent without
\* it are the multipart uploads, which still carry the other two headers.
C5_HeadersRestored ==
  /\ \A t \in Threads :
       pc[t] = "done" => /\ headers = headers_before[t]
                         /\ "Content-Type" \in headers
  /\ "Content-Type" \notin headers => \E t \in Threads : pc[t] \in InTry
  /\ \A t \in Threads : \A s \in sent[t] :
       IF s.req = "task_status"
       THEN s.headers = AllHeaders
       ELSE s.headers = {"Authorization", "Accept"}

C5_Witness ==
  \E t \in Threads :
    /\ pc[t] = "done"
    /\ op[t] \in UploadOps
    /\ http_calls[t] = 1
    /\ outcome[t].exc.kind = "KeyError"
    /\ headers = AllHeaders

\* C6 (MIME pre-flight): a call whose filename's MIME type is not in its
\* operation's allow-list ends at the check by raising the unsupported-type
\* error naming that MIME type, with no request sent, no status check, no
\* header snapshot taken and session.headers as the call found them; image.gif
\* and photo.png given to index creation are such calls.
C6_MimePreflight ==
  \A t \in Threads :
    /\ (pc[t] \notin {"idle", "mime"}
        /\ get_mime_type(filename[t]) \notin SupportedTypes(op[t]))
         => /\ pc[t] = "done"
            /\ outcome[t] = Raised(Exc("ValueError", "Unsupported file type",
                                       get_mime_type(filename[t]), 0, 0))
            /\ http_calls[t] = 0
            /\ sent[t] = {}
            /\ history[t] = <<>>
            /\ original_headers[t] = {}
            /\ headers = headers_before[t]
    /\ (pc[t] \notin {"idle", "mime"}
        /\ filename[t] \in {"image.gif", "photo.png"}
        /\ op[t] \in {"create_index", "create_index_and_poll"})
         => /\ outcome[t].exc.kind = "ValueError"
            /\ http_calls[t] = 0

C6_Witness ==
  \E t \in Threads :
    /\ pc[t] = "done"
    /\ op[t] = "create_index"
    /\ filename[t] = "image.gif"
    /\ outcome[t].exc.kind = "ValueError"
    /\ outcome[t].exc.detail = "image/gif"
    /\ http_calls[t] = 0
    /\ headers = AllHeaders

------------------------------------------------------------------------------
(* Properties of _handle_response (SpecChat) *)

ApiErrorOf(resp) ==
  Err(Exc("APIError", "API error", resp.body.error, resp.status_code, 0))

\* C7 as stated: whatever the HTTP status, a decodable mapping body with a
\* truthy `error` key makes _handle_response raise the API error carrying the
\* server's error value and the status code.
C7_AnyStatus ==
  (chat_resp # NoResponse
   /\ chat_resp.body.kind = "dict"
   /\ chat_resp.body.error \notin {ABSENT, ""})
    => chat_out = ApiErrorOf(chat_resp)

\* C7 as amended: for every HTTP status outside 400..599, a decodable mapping
\* body with a truthy `error` key makes _handle_response raise the API error
\* carrying the server's error value and the status code.
C7_NonErrorStatus ==
  (chat_resp # NoResponse
   /\ ~(chat_resp.status_code >= 400 /\ chat_resp.status_code < 600)
   /\ chat_resp.body.kind = "dict"
   /\ chat_resp.body.error \notin {ABSENT, ""})
    => chat_out = ApiErrorOf(chat_resp)

C7_Witness ==
  /\ chat_resp.status_code = 200
  /\ chat_resp.body.error = "quota exceeded"
  /\ chat_resp.body.data.present
  /\ chat_out.exc.kind = "APIError"
  /\ chat_out.exc.detail = "quota exceeded"
  /\ chat_out.exc.status_code = 200

\* C8: for HTTP status 401, whatever the body, _handle_response raises
\* AuthenticationError("Invalid API key") and nothing else.
C8_Unauthorized ==
  (chat_resp # NoResponse /\ chat_resp.status_code = 401)
    => chat_out = Err(Exc("AuthenticationError", "Invalid API key", "", 0, 0))

C8_Witness ==
  /\ chat_resp.status_code = 401
  /\ chat_resp.body.kind = "invalid"
  /\ chat_out.exc.kind = "AuthenticationError"

ValidationErrorOf(detail) ==
  Err(Exc("APIError", "Validation error", detail, 422, 0))
GenericError422 == Err(Exc("APIError", "HTTP error", HTTPERR, 422, 0))

\* C9 as stated: for HTTP status 422, a body with a `message` field gives the
\* validation error carrying that message; a body that decodes without a
\* `message` field, or that does not decode, gives the generic API error
\* "HTTP 422 error" with status 422.
C9_FallsThrough ==
  (chat_resp # NoResponse /\ chat_resp.status_code = 422)
    => /\ (chat_resp.body.kind = "dict" /\ chat_resp.body.message # ABSENT)
            => chat_out = ValidationErrorOf(chat_resp.body.message)
       /\ (chat_resp.body.kind = "invalid"
           \/ (chat_resp.body.kind = "dict" /\ chat_resp.body.message = ABSENT))
            => chat_out = GenericError422

\* C9 as amended: for HTTP status 422, a mapping body with a `message` field
\* gives the validation error carrying that message; a mapping body without
\* one gives the validation error carrying the HTTP error's own text; only a
\* body that does not decode gives the generic API error "HTTP 422 error" with
\* status 422 (a decodable body that is no mapping raises AttributeError).
C9_Validation ==
  (chat_resp # NoResponse /\ chat_resp.status_code = 422)
    => /\ (chat_resp.body.kind = "dict" /\ chat_resp.body.message # ABSENT)
            => chat_out = ValidationErrorOf(chat_resp.body.message)
       /\ (chat_resp.body.kind = "dict" /\ chat_resp.body.message = ABSENT)
            => chat_out = ValidationErrorOf(HTTPERR)
       /\ chat_resp.body.kind = "invalid" => chat_out = GenericError422
       /\ chat_resp.body.kind = "nonmap" => chat_out.exc.kind = "AttributeError"

C9_Witness ==
  /\ chat_resp.status_code = 422
  /\ chat_resp.body.kind = "dict"
  /\ chat_resp.body.message = "field X required"
  /\ chat_out = ValidationErrorOf("field X required")

------------------------------------------------------------------------------
(* Property of interleaved uploads (SpecRace) *)

\* C10 (header race): with two uploads interleaved on one client, Content-Type
\* can be missing from session.headers while no call is between its pop and
\* its finally clause, and it is missing then only when some call took its
\* snapshot while another call had the header removed; calls that never
\* overlap that way always leave the header in place.
C10_LostOnlyByOverlap ==
  ("Content-Type" \notin headers /\ \A t \in Threads : pc[t] \notin InTry)
    => snapshot_during_upload

C10_Witness ==
  /\ pc[1] = "done"
  /\ pc[2] = "done"
  /\ op[1] \in UploadOps
  /\ op[2] \in UploadOps
  /\ headers_before[1] = AllHeaders
  /\ headers_before[2] = AllHeaders
  /\ "Content-Type" \notin headers
  /\ snapshot_during_upload

====
